---- MODULE Spec2Model ----
(***************************************************************************)
(* proto2django: main.go reads a .proto text, extracts message blocks and  *)
(* their fields with two regular expressions, maps every field type to a   *)
(* Django field declaration and renders six templates into an app          *)
(* directory.                                                              *)
(*                                                                         *)
(* Representation.  A Go string the program inspects byte by byte (the     *)
(* schema text, every captured identifier) is a sequence of one-character  *)
(* strings.  A Go string the program only builds and emits is a TLA+       *)
(* string; Str is the bridge.  A file's content is the sequence of the     *)
(* pieces the writer emits: the literal segments of the template, the      *)
(* values of its actions, and "\n" for every line break.                   *)
(***************************************************************************)
EXTENDS Naturals, Sequences, FiniteSets, TLC

----------------------------------------------------------------------------
(* Characters and strings *)

Lower == <<"a","b","c","d","e","f","g","h","i","j","k","l","m",
           "n","o","p","q","r","s","t","u","v","w","x","y","z">>

Upper == <<"A","B","C","D","E","F","G","H","I","J","K","L","M",
           "N","O","P","Q","R","S","T","U","V","W","X","Y","Z">>

Range(s) == { s[k] : k \in DOMAIN s }

\* \d of the regexp syntax
DigitChars == {"0","1","2","3","4","5","6","7","8","9"}

\* \w of the regexp syntax: [0-9A-Za-z_]
WordChars == Range(Lower) \cup Range(Upper) \cup DigitChars \cup {"_"}

\* \s of the regexp syntax: [\t\n\f\r ]
SpaceChars == {" ", "\t", "\n", "\f", "\r"}

\* the bytes of a character sequence as one string
RECURSIVE Str(_)
Str(cs) == IF cs = <<>> THEN "" ELSE Head(cs) \o Str(Tail(cs))

\* strings.ToLower on ASCII text
LowerOf(c) ==
    IF c \in Range(Upper) THEN Lower[CHOOSE k \in DOMAIN Upper : Upper[k] = c] ELSE c

UpperOf(c) ==
    IF c \in Range(Lower) THEN Upper[CHOOSE k \in DOMAIN Lower : Lower[k] = c] ELSE c

ToLower(cs) == [k \in DOMAIN cs |-> LowerOf(cs[k])]

\* cases.Title(language.English) on one word of ASCII letters: the first
\* letter upper case, the rest lower case
caser(cs) == [k \in DOMAIN cs |-> IF k = 1 THEN UpperOf(cs[k]) ELSE LowerOf(cs[k])]

\* filepath.Base of a path given as its non-empty sequence of segments
Base(path) == path[Len(path)]

RECURSIVE Flatten(_)
Flatten(ss) == IF ss = <<>> THEN <<>> ELSE Head(ss) \o Flatten(Tail(ss))

----------------------------------------------------------------------------
(* The two regular expressions of ParseProto.  Go's regexp returns the     *)
(* leftmost match and, among the matches at one position, the one a        *)
(* backtracking search finds first.  In both patterns every repetition is  *)
(* followed by something its own class excludes (\s+ by \w, \w+ by \s or   *)
(* "{" or "=", [^}]* by "}", the final \d+ by nothing), so each repetition *)
(* takes the whole run and the only choice left is the optional group of   *)
(* fieldRe, tried first with the group, then without.                      *)

Least(S) == CHOOSE q \in S : \A r \in S : q <= r

\* the end of the run of characters of class S that starts at p
RunEnd(t, p, S) ==
    LET stops == { q \in p..(Len(t) + 1) : q = Len(t) + 1 \/ t[q] \notin S }
    IN  Least(stops)

\* the literal lit occurs in t at p
HasLit(t, p, lit) ==
    /\ p + Len(lit) - 1 <= Len(t)
    /\ \A k \in 1..Len(lit) : t[p + k - 1] = lit[k]

NoMatch == [ok |-> FALSE]

litMessage == <<"m","e","s","s","a","g","e">>

litRepeated == <<"r","e","p","e","a","t","e","d">>

\* messageReAt with white space required before the brace: message\s+(\w+)\s+{
messageReAtSpaced(t, p) ==
    IF ~HasLit(t, p, litMessage) THEN NoMatch ELSE
    LET a == p + Len(litMessage)
        b == RunEnd(t, a, SpaceChars)
        c == RunEnd(t, b, WordChars)
        d == RunEnd(t, c, SpaceChars)
        e == RunEnd(t, d + 1, Range(t) \ {"}"})
    IN  IF /\ b > a
           /\ c > b
           /\ d > c
           /\ d <= Len(t)
           /\ t[d] = "{"
           /\ e <= Len(t)
        THEN [ok |-> TRUE, name |-> SubSeq(t, b, c - 1),
              body |-> SubSeq(t, d + 1, e - 1), end |-> e + 1]
        ELSE NoMatch

\* message\s+(\w+)\s*{([^}]*)} anchored at p
messageReAt(t, p) ==
    IF ~HasLit(t, p, litMessage) THEN NoMatch ELSE
    LET a == p + Len(litMessage)
        b == RunEnd(t, a, SpaceChars)
        c == RunEnd(t, b, WordChars)
        d == RunEnd(t, c, SpaceChars)
        e == RunEnd(t, d + 1, Range(t) \ {"}"})
    IN  IF /\ b > a
           /\ c > b
           /\ d <= Len(t)
           /\ t[d] = "{"
           /\ e <= Len(t)
        THEN [ok |-> TRUE, name |-> SubSeq(t, b, c - 1),
              body |-> SubSeq(t, d + 1, e - 1), end |-> e + 1]
        ELSE NoMatch

\* (\w+)\s+(\w+)\s*=\s*\d+ anchored at q, the optional group already decided
fieldRestAt(t, q, rep) ==
    LET c1 == RunEnd(t, q, WordChars)
        s1 == RunEnd(t, c1, SpaceChars)
        c2 == RunEnd(t, s1, WordChars)
        s2 == RunEnd(t, c2, SpaceChars)
        s3 == RunEnd(t, s2 + 1, SpaceChars)
        d  == RunEnd(t, s3, DigitChars)
    IN  IF /\ c1 > q
           /\ s1 > c1
           /\ c2 > s1
           /\ s2 <= Len(t)
           /\ t[s2] = "="
           /\ d > s3
        THEN [ok |-> TRUE, group |-> rep, typ |-> SubSeq(t, q, c1 - 1),
              name |-> SubSeq(t, s1, c2 - 1), end |-> d]
        ELSE NoMatch

\* (repeated\s+)?(\w+)\s+(\w+)\s*=\s*\d+ anchored at p
fieldReAt(t, p) ==
    LET a == p + Len(litRepeated)
        b == RunEnd(t, a, SpaceChars)
        with == IF HasLit(t, p, litRepeated) /\ b > a
                THEN fieldRestAt(t, b, TRUE) ELSE NoMatch
    IN  IF with.ok THEN with ELSE fieldRestAt(t, p, FALSE)

\* FindAllStringSubmatch(t, -1): the successive non-overlapping leftmost matches,
\* each search resuming where the match before it ended
RECURSIVE FindAllMessages(_, _)
FindAllMessages(t, p) ==
    LET starts == { q \in p..Len(t) : messageReAt(t, q).ok }
    IN  IF starts = {} THEN <<>>
        ELSE LET m == messageReAt(t, Least(starts))
             IN  <<m>> \o FindAllMessages(t, m.end)

RECURSIVE FindAllFields(_, _)
FindAllFields(t, p) ==
    LET starts == { q \in p..Len(t) : fieldReAt(t, q).ok }
    IN  IF starts = {} THEN <<>>
        ELSE LET m == fieldReAt(t, Least(starts))
             IN  <<m>> \o FindAllFields(t, m.end)

\* ParseFields prepending each field instead of appending it
ParseFieldsReversed(body) ==
    LET fm == FindAllFields(body, 1)
    IN  [k \in 1..Len(fm) |->
            [Name |-> fm[Len(fm) + 1 - k].name, Type |-> fm[Len(fm) + 1 - k].typ,
             Repeated |-> fm[Len(fm) + 1 - k].group]]

\* the inner loop of ParseProto: one ProtoField per field match
ParseFields(body) ==
    LET fm == FindAllFields(body, 1)
    IN  [k \in 1..Len(fm) |->
            [Name |-> fm[k].name, Type |-> fm[k].typ, Repeated |-> fm[k].group]]

\* the outer loop of ParseProto: one ProtoMessage per message match
ParseText(t) ==
    LET mm == FindAllMessages(t, 1)
    IN  [k \in 1..Len(mm) |-> [Name |-> mm[k].name, Fields |-> ParseFields(mm[k].body)]]

----------------------------------------------------------------------------
(* Type mapping *)

\* PythonType without the case "double"
PythonTypeNoDouble(protoType) ==
    CASE protoType \in {"int32", "int64"}  -> "models.IntegerField()"
      [] protoType = "string"              -> "models.CharField(max_length=255)"
      [] protoType = "bool"                -> "models.BooleanField()"
      [] protoType = "float"               -> "models.FloatField()"
      [] OTHER -> "models.ForeignKey(" \o protoType \o ", on_delete=models.CASCADE)"

PythonType(protoType) ==
    CASE protoType \in {"int32", "int64"}  -> "models.IntegerField()"
      [] protoType = "string"              -> "models.CharField(max_length=255)"
      [] protoType = "bool"                -> "models.BooleanField()"
      [] protoType \in {"float", "double"} -> "models.FloatField()"
      [] OTHER -> "models.ForeignKey(" \o protoType \o ", on_delete=models.CASCADE)"

\* the body of the inner mapping loop of GenerateApp
RenderedField(f) ==
    [Name |-> f.Name, Type |-> f.Type, Repeated |-> f.Repeated,
     DjangoType |-> PythonType(Str(f.Type))]

\* one iteration of the outer mapping loop of GenerateApp
RenderedMessage(msg) ==
    [Name |-> msg.Name,
     Fields |-> [k \in 1..Len(msg.Fields) |-> RenderedField(msg.Fields[k])]]

----------------------------------------------------------------------------
(* Templates.  Each operator yields the pieces text/template writes for    *)
(* the context data: a "{{-" trims the white space before it, every other  *)
(* line break of the template text is emitted as NL.                       *)

NL == "\n"

RangeMessages(data, Piece(_)) ==
    Flatten([k \in 1..Len(data.Messages) |-> Piece(data.Messages[k])])

modelsField(f) == <<NL, "    ", Str(f.Name), " = ", f.DjangoType>>

\* modelsMessage without the "if not .Fields" branch
modelsMessageNoPass(m) ==
    <<NL, "class ", Str(m.Name), "(models.Model):">>
    \o Flatten([k \in 1..Len(m.Fields) |-> modelsField(m.Fields[k])])
    \o <<NL>>

modelsMessage(m) ==
    <<NL, "class ", Str(m.Name), "(models.Model):">>
    \o (IF m.Fields = <<>>
        THEN <<NL, "    pass">>
        ELSE Flatten([k \in 1..Len(m.Fields) |-> modelsField(m.Fields[k])]))
    \o <<NL>>

modelsTemplate(data) ==
    <<"from django.db import models">>
    \o RangeMessages(data, modelsMessage)
    \o <<NL>>

importModel(m) == <<NL, "from .models import ", Str(m.Name), NL>>

serializersMessage(m) ==
    <<NL, "class ", Str(m.Name), "Serializer(serializers.ModelSerializer):", NL,
      "    class Meta:", NL,
      "        model = ", Str(m.Name), NL,
      "        fields = '__all__'", NL>>

serializersTemplate(data) ==
    <<"from rest_framework import serializers", NL>>
    \o RangeMessages(data, importModel)
    \o <<NL, NL>>
    \o RangeMessages(data, serializersMessage)
    \o <<NL>>

viewsetsImport(m) ==
    <<NL, "from .models import ", Str(m.Name), NL,
      "from .serializers import ", Str(m.Name), "Serializer", NL>>

viewsetsMessage(m) ==
    <<NL, "class ", Str(m.Name), "ViewSet(viewsets.ModelViewSet):", NL,
      "    queryset = ", Str(m.Name), ".objects.all()", NL,
      "    serializer_class = ", Str(m.Name), "Serializer", NL>>

viewsetsTemplate(data) ==
    <<"from rest_framework import viewsets", NL>>
    \o RangeMessages(data, viewsetsImport)
    \o <<NL, NL>>
    \o RangeMessages(data, viewsetsMessage)
    \o <<NL>>

urlsImport(m) == <<NL, "from .viewsets import ", Str(m.Name), "ViewSet", NL>>

\* urlsMessage without the ToLower helper
urlsMessageAsWritten(m) ==
    <<NL, "router.register(r'", Str(m.Name), "', ", Str(m.Name), "ViewSet)", NL>>

urlsMessage(m) ==
    <<NL, "router.register(r'", Str(ToLower(m.Name)), "', ", Str(m.Name), "ViewSet)", NL>>

urlsTemplate(data) ==
    <<"from django.urls import path, include", NL,
      "from rest_framework.routers import DefaultRouter", NL>>
    \o RangeMessages(data, urlsImport)
    \o <<NL, NL, "router = DefaultRouter()", NL>>
    \o RangeMessages(data, urlsMessage)
    \o <<NL, NL, "urlpatterns = [", NL, "    path('', include(router.urls)),", NL, "]", NL>>

adminMessage(m) == <<NL, "admin.site.register(", Str(m.Name), ")", NL>>

adminTemplate(data) ==
    <<"from django.contrib import admin", NL>>
    \o RangeMessages(data, importModel)
    \o <<NL, NL>>
    \o RangeMessages(data, adminMessage)
    \o <<NL>>

appsTemplate(data) ==
    <<"from django.apps import AppConfig", NL, NL,
      "class ", Str(data.AppTitle), "Config(AppConfig):", NL,
      "    default_auto_field = 'django.db.models.BigAutoField'", NL,
      "    name = '", Str(data.AppName), "'", NL>>

\* the keys of the map files in GenerateApp
files == {"models.py", "serializers.py", "viewsets.py", "urls.py", "admin.py", "apps.py"}

\* tmpl.Execute of files[name] on data
Execute(name, data) ==
    CASE name = "models.py"      -> modelsTemplate(data)
      [] name = "serializers.py" -> serializersTemplate(data)
      [] name = "viewsets.py"    -> viewsetsTemplate(data)
      [] name = "urls.py"        -> urlsTemplate(data)
      [] name = "admin.py"       -> adminTemplate(data)
      [] name = "apps.py"        -> appsTemplate(data)

\* the three files GenerateApp writes with fixed content, in the order written
staticFiles == <<"migrations/__init__.py", "__init__.py", "tests.py">>

staticContent(path) == IF path = "tests.py" THEN <<"# placeholder", NL>> ELSE <<>>

----------------------------------------------------------------------------
(* Inputs.  A schema text is written from a schema: a sequence of items,   *)
(* each a header, a body of field pieces and a closing.  Every header and  *)
(* piece records, beside its characters, what its author declared by it    *)
(* (read off by hand, not computed by the patterns above), so that what    *)
(* the program extracts can be compared with what the text says.           *)

MaxMsgs == 2

MaxFields == 2

MaxFaults == 1

SeqsUpTo(S, n) == UNION { [1..k -> S] : k \in 0..n }

Decl(t, n, r) == [Type |-> t, Name |-> n, Repeated |-> r]

\* " string name = 1;"
PString ==
    [src  |-> <<" ","s","t","r","i","n","g"," ","n","a","m","e"," ","="," ","1",";">>,
     decl |-> <<Decl(<<"s","t","r","i","n","g">>, <<"n","a","m","e">>, FALSE)>>]

\* a repeated field on a line of its own, no blanks around "="
PRepeated ==
    [src  |-> <<"\n"," "," ","r","e","p","e","a","t","e","d"," ","i","n","t","3","2",
                " ","i","d","s","=","2",";">>,
     decl |-> <<Decl(<<"i","n","t","3","2">>, <<"i","d","s">>, TRUE)>>]

\* a field of a message type, indented by a tab
PCustom ==
    [src  |-> <<"\n","\t","A","u","t","h","o","r"," ","b","y"," ","="," ","3"," ",";">>,
     decl |-> <<Decl(<<"A","u","t","h","o","r">>, <<"b","y">>, FALSE)>>]

\* " option deprecated;": not a field declaration
PJunk ==
    [src  |-> <<" ","o","p","t","i","o","n"," ","d","e","p","r","e","c","a","t","e","d",";">>,
     decl |-> <<>>]

\* one declaration written on two lines: " int64" / " big = 4;"
PSplit ==
    [src  |-> <<" ","i","n","t","6","4","\n"," ","b","i","g"," ","="," ","4",";">>,
     decl |-> <<Decl(<<"i","n","t","6","4">>, <<"b","i","g">>, FALSE)>>]

\* " repeated tags = 5;": the type is missing, so the word repeated is read as the type
PBare ==
    [src  |-> <<" ","r","e","p","e","a","t","e","d"," ","t","a","g","s"," ","="," ","5",";">>,
     decl |-> <<Decl(<<"r","e","p","e","a","t","e","d">>, <<"t","a","g","s">>, FALSE)>>]

\* " [repeated ]<t> f = 7;"
TypePiece(t, r) ==
    [src  |-> (IF r THEN <<" ","r","e","p","e","a","t","e","d"," ">> ELSE <<" ">>)
              \o t \o <<" ","f"," ","="," ","7",";">>,
     decl |-> <<Decl(t, <<"f">>, r)>>]

TypeNames ==
    { <<"i","n","t","3","2">>, <<"i","n","t","6","4">>, <<"s","t","r","i","n","g">>,
      <<"b","o","o","l">>, <<"f","l","o","a","t">>, <<"d","o","u","b","l","e">>,
      <<"I","n","t","3","2">>, <<"S","t","r","i","n","g">>, <<"B","O","O","L">>,
      <<"i","n","t">>, <<"f","l","o","a","t","6","4">>, <<"A","u","t","h","o","r">> }

Closing == <<"}","\n">>

\* "message User {"
HUser ==
    [pre |-> <<"m","e","s","s","a","g","e"," ","U","s","e","r"," ","{">>, post |-> Closing,
     isMsg |-> TRUE, name |-> <<"U","s","e","r">>, lower |-> "user"]

\* "message  Post{"
HPost ==
    [pre |-> <<"m","e","s","s","a","g","e"," "," ","P","o","s","t","{">>, post |-> Closing,
     isMsg |-> TRUE, name |-> <<"P","o","s","t">>, lower |-> "post"]

\* "message<TAB>User<LF>{": the name User again
HTab ==
    [pre |-> <<"m","e","s","s","a","g","e","\t","U","s","e","r","\n","{">>, post |-> Closing,
     isMsg |-> TRUE, name |-> <<"U","s","e","r">>, lower |-> "user"]

\* "enum Kind {": a block that is no message
HEnum ==
    [pre |-> <<"e","n","u","m"," ","K","i","n","d"," ","{">>, post |-> Closing,
     isMsg |-> FALSE, name |-> <<>>, lower |-> ""]

\* "message {": the name is missing
HNoName ==
    [pre |-> <<"m","e","s","s","a","g","e"," ","{">>, post |-> Closing,
     isMsg |-> FALSE, name |-> <<>>, lower |-> ""]

\* "message Outer_1 { message Inner {" ... "} }": the body runs to the first "}"
HNested ==
    [pre |-> <<"m","e","s","s","a","g","e"," ","O","u","t","e","r","_","1"," ","{"," ",
               "m","e","s","s","a","g","e"," ","I","n","n","e","r"," ","{">>,
     post |-> <<"}"," ","}","\n">>,
     isMsg |-> TRUE, name |-> <<"O","u","t","e","r","_","1">>, lower |-> "outer_1"]

Item(h, b) == [hdr |-> h, body |-> b]

ItemText(it) ==
    it.hdr.pre \o Flatten([k \in 1..Len(it.body) |-> it.body[k].src]) \o it.hdr.post

\* the characters of the schema file
TextOf(s) == Flatten([k \in 1..Len(s) |-> ItemText(s[k])])

IsMessageItem(it) == it.hdr.isMsg

\* the messages and fields the schema declares, in the order of the text
Declared(s) ==
    LET ms == SelectSeq(s, IsMessageItem)
    IN  [k \in 1..Len(ms) |->
            [Name  |-> ms[k].hdr.name,
             Lower |-> ms[k].hdr.lower,
             Fields |-> Flatten([i \in 1..Len(ms[k].body) |-> ms[k].body[i].decl])]]

CoreHeaders == {HUser, HPost, HEnum}

CorePieces == {PString, PRepeated, PJunk}

\* the items with headers hs whose bodies are the pieces ps, piece i in item cut[i]
Build(hs, ps, cut) ==
    [k \in 1..Len(hs) |->
        Item(hs[k], Flatten([i \in 1..Len(ps) |-> IF cut[i] = k THEN <<ps[i]>> ELSE <<>>]))]


\* at most MaxMsgs items holding at most MaxFields pieces between them
CoreSchemas ==
    UNION { UNION { { Build(hs, ps, cut) :
                        cut \in { c \in [1..Len(ps) -> 1..Len(hs)] :
                                    \A i, j \in 1..Len(ps) : i <= j => c[i] <= c[j] } }
                    : ps \in SeqsUpTo(CorePieces, IF hs = <<>> THEN 0 ELSE MaxFields) }
            : hs \in SeqsUpTo(CoreHeaders, MaxMsgs) }

EdgeItems ==
    { Item(h, b) : h \in {HTab, HNoName, HNested},
                   b \in {<<>>, <<PBare>>, <<PCustom, PString>>, <<PSplit, PJunk>>} }

\* the irregular blocks, alone and on either side of a regular one
EdgeSchemas ==
    UNION { { <<e>>, <<e, Item(HUser, <<PString>>)>>, <<Item(HUser, <<PRepeated>>), e>> }
            : e \in EdgeItems }

\* one message whose fields run over the type names, plain and repeated
TypeSchemas ==
    UNION { { <<Item(HUser, <<TypePiece(t, r)>>)>>,
              <<Item(HPost, <<TypePiece(t, r), TypePiece(t, ~r)>>)>> }
            : t \in TypeNames, r \in BOOLEAN }

GenSchemas == CoreSchemas \cup EdgeSchemas \cup TypeSchemas

\* the schemas of the runs that exercise the file system
IoSchemas ==
    { <<>>,
      <<Item(HUser, <<>>)>>,
      <<Item(HEnum, <<PString>>)>>,
      <<Item(HUser, <<PString, PRepeated>>), Item(HTab, <<PCustom>>)>> }

OutputDirs == { <<<<"s","r","v">>, <<"a","c","c","o","u","n","t","s">>>>,
                <<<<"m","y","A","p","p">>>> }

----------------------------------------------------------------------------
(* The file system and its failures *)

allFiles == files \cup Range(staticFiles)

allDirs == {"outputDir", "outputDir/migrations"}

\* the calls that can fail: os.ReadFile, os.MkdirAll, os.WriteFile of a static
\* file, os.Create and the writes of tmpl.Execute of a templated file
FaultOps ==
    {<<"read", "protoPath">>, <<"mkdir", "outputDir/migrations">>}
    \cup { <<"write", p>> : p \in Range(staticFiles) }
    \cup { <<"create", n>> : n \in files }
    \cup { <<"execute", n>> : n \in files }

FaultSets == { F \in SUBSET FaultOps : Cardinality(F) <= MaxFaults }

\* what an earlier generation left behind
OldContent == <<"# old", NL>>

EmptyFs == [p \in {} |-> <<>>]

OldFs == [p \in allFiles |-> OldContent]

\* the state of path p: absent, or present with its content
At(f, p) == IF p \in DOMAIN f THEN <<"file", f[p]>> ELSE <<"absent">>

NoData == [AppName |-> <<>>, AppTitle |-> <<>>, Messages |-> <<>>]

errRead == "failed to read proto file"

errMkdir == "failed to create migrations directory"

errRender(n) == "failed to render " \o n

----------------------------------------------------------------------------
(* State *)

VARIABLES
    schema,       \* what the author of the schema file declared (never read by the program)
    text,         \* the content of the file at protoPath
    outputDir,    \* the -out flag, as path segments
    faults,       \* the calls that fail in this environment
    fs0, dirs0,   \* the files and directories present before the run
    fs, dirs,     \* the files (path -> content) and directories present now
    pc,           \* where main and GenerateApp stand
    rawMessages,  \* GenerateApp: rawMessages
    rendered,     \* GenerateApp: rendered
    msgIdx,       \* GenerateApp: position of the mapping loop in rawMessages
    data,         \* GenerateApp: data
    visited,      \* the keys of files the range loop has been through
    err,          \* the error GenerateApp returns ("" for nil)
    failed,       \* the calls that have returned an error so far
    exitStatus,   \* the exit status of the process ("" while it runs)
    trace,        \* the pipeline stages in the order they were entered
    run,          \* 1 in the first run, 2 in a second run under the same conditions
    first         \* the outcome of the first run, kept for the second

env == <<schema, text, outputDir, faults, fs0, dirs0>>

vars == <<schema, text, outputDir, faults, fs0, dirs0, fs, dirs, pc, rawMessages, rendered,
          msgIdx, data, visited, err, failed, exitStatus, trace, run, first>>

\* main has parsed its flags and calls GenerateApp
Fresh ==
    /\ fs = fs0
    /\ dirs = dirs0
    /\ pc = "start"
    /\ rawMessages = <<>>
    /\ rendered = <<>>
    /\ msgIdx = 1
    /\ data = NoData
    /\ visited = {}
    /\ err = ""
    /\ failed = {}
    /\ exitStatus = ""
    /\ trace = <<>>

InitEnv(schemas, dirsOut, faultSets, before) ==
    /\ schema \in schemas
    /\ text = TextOf(schema)
    /\ outputDir \in dirsOut
    /\ faults \in faultSets
    /\ fs0 \in before
    /\ dirs0 = IF fs0 = EmptyFs THEN {} ELSE allDirs
    /\ run = 1
    /\ first = [fs |-> fs0, dirs |-> dirs0, err |-> ""]

Init == InitEnv(IoSchemas, OutputDirs, FaultSets, {EmptyFs, OldFs}) /\ Fresh

\* the conditions under which the program is run twice
InitTwice ==
    InitEnv({<<Item(HUser, <<PString, PRepeated>>), Item(HTab, <<PCustom>>)>>},
            {<<<<"m","y","A","p","p">>>>}, FaultSets, {EmptyFs, OldFs})
    /\ Fresh

ReadFaults == {{}, {<<"read", "protoPath">>}}

InitGen ==
    InitEnv(GenSchemas, {<<<<"s","r","v">>, <<"a","c","c","o","u","n","t","s">>>>}, ReadFaults,
            {EmptyFs})
    /\ Fresh

----------------------------------------------------------------------------
(* Actions *)

\* ParseProto with the read error dropped: GenerateApp goes on with no message
ParseProtoSwallowed ==
    /\ pc = "start"
    /\ trace' = Append(trace, "parse")
    /\ IF <<"read", "protoPath">> \in faults
       THEN /\ failed' = failed \cup {<<"read", "protoPath">>}
            /\ UNCHANGED rawMessages
       ELSE /\ rawMessages' = ParseText(text)
            /\ UNCHANGED failed
    /\ pc' = "map"
    /\ UNCHANGED <<env, fs, dirs, rendered, msgIdx, data, visited, err, exitStatus, run, first>>

\* ParseProto, called at the top of GenerateApp
ParseProto ==
    /\ pc = "start"
    /\ trace' = Append(trace, "parse")
    /\ IF <<"read", "protoPath">> \in faults
       THEN /\ err' = errRead
            /\ failed' = failed \cup {<<"read", "protoPath">>}
            /\ pc' = "returned"
            /\ UNCHANGED rawMessages
       ELSE /\ rawMessages' = ParseText(text)
            /\ pc' = "map"
            /\ UNCHANGED <<err, failed>>
    /\ UNCHANGED <<env, fs, dirs, rendered, msgIdx, data, visited, exitStatus, run, first>>

\* one iteration of the mapping loop over rawMessages
MapMessage ==
    /\ pc = "map"
    /\ msgIdx <= Len(rawMessages)
    /\ rendered' = Append(rendered, RenderedMessage(rawMessages[msgIdx]))
    /\ msgIdx' = msgIdx + 1
    /\ trace' = Append(trace, "map")
    /\ UNCHANGED <<env, fs, dirs, pc, rawMessages, data, visited, err, failed, exitStatus,
                   run, first>>

\* BuildData without waiting for the end of the mapping loop
BuildDataEarly ==
    /\ pc = "map"
    /\ data' = [AppName  |-> Base(outputDir),
                AppTitle |-> caser(Base(outputDir)),
                Messages |-> rendered]
    /\ pc' = "mkdir"
    /\ trace' = Append(trace, "context")
    /\ UNCHANGED <<env, fs, dirs, rawMessages, rendered, msgIdx, visited, err, failed,
                   exitStatus, run, first>>

\* the mapping loop is over: appName and data are built
BuildData ==
    /\ pc = "map"
    /\ msgIdx > Len(rawMessages)
    /\ data' = [AppName  |-> Base(outputDir),
                AppTitle |-> caser(Base(outputDir)),
                Messages |-> rendered]
    /\ pc' = "mkdir"
    /\ trace' = Append(trace, "context")
    /\ UNCHANGED <<env, fs, dirs, rawMessages, rendered, msgIdx, visited, err, failed,
                   exitStatus, run, first>>

\* os.MkdirAll(outputDir/migrations); when it fails no directory has been created
MkdirAll ==
    /\ pc = "mkdir"
    /\ IF <<"mkdir", "outputDir/migrations">> \in faults
       THEN /\ err' = errMkdir
            /\ failed' = failed \cup {<<"mkdir", "outputDir/migrations">>}
            /\ pc' = "returned"
            /\ UNCHANGED dirs
       ELSE /\ dirs' = dirs \cup allDirs
            /\ pc' = "static1"
            /\ UNCHANGED <<err, failed>>
    /\ trace' = Append(trace, "static")
    /\ UNCHANGED <<env, fs, rawMessages, rendered, msgIdx, data, visited, exitStatus,
                   run, first>>

\* writeFile(path, content): the error of os.WriteFile is discarded.  A failing
\* os.WriteFile is taken to fail on opening the file, which it then leaves as it was.
writeFile(path, content, next) ==
    /\ IF <<"write", path>> \in faults
       THEN /\ failed' = failed \cup {<<"write", path>>}
            /\ UNCHANGED fs
       ELSE /\ fs' = (path :> content) @@ fs
            /\ UNCHANGED failed
    /\ pc' = next
    /\ trace' = Append(trace, "static")
    /\ UNCHANGED <<env, dirs, rawMessages, rendered, msgIdx, data, visited, err, exitStatus,
                   run, first>>

WriteMigrationsInit ==
    pc = "static1" /\ writeFile(staticFiles[1], staticContent(staticFiles[1]), "static2")

WritePackageInit ==
    pc = "static2" /\ writeFile(staticFiles[2], staticContent(staticFiles[2]), "static3")

WriteTests ==
    pc = "static3" /\ writeFile(staticFiles[3], staticContent(staticFiles[3]), "range")

\* renderToFile rendering into a buffer shared by the files and never reset:
\* what is written depends on how many files were rendered before
renderToFileCarried(name) ==
    LET carried == [k \in 1..Cardinality(visited) |-> "# carried over"]
    IN  IF <<"create", name>> \in faults
        THEN [fs |-> fs, err |-> "failed to create file", op |-> {<<"create", name>>}]
        ELSE IF <<"execute", name>> \in faults
        THEN [fs |-> (name :> <<>>) @@ fs, err |-> "write error", op |-> {<<"execute", name>>}]
        ELSE [fs |-> (name :> (carried \o Execute(name, data))) @@ fs, err |-> "", op |-> {}]

\* renderToFile removing, when it fails, the files rendered before it
renderToFileCleanup(name) ==
    LET kept == [p \in DOMAIN fs \ visited |-> fs[p]]
    IN  IF <<"create", name>> \in faults
        THEN [fs |-> kept, err |-> "failed to create file", op |-> {<<"create", name>>}]
        ELSE IF <<"execute", name>> \in faults
        THEN [fs |-> (name :> <<>>) @@ kept, err |-> "write error", op |-> {<<"execute", name>>}]
        ELSE [fs |-> (name :> Execute(name, data)) @@ fs, err |-> "", op |-> {}]

\* renderToFile(files[name], data, outputDir/name): the file system it leaves, the
\* error it returns and the call that failed.  template.Parse of one of the six
\* constant templates succeeds; os.Create fails before the file is touched; a
\* failing tmpl.Execute is taken to fail at its first write, after os.Create has
\* emptied the file.
renderToFile(name) ==
    IF <<"create", name>> \in faults
    THEN [fs |-> fs, err |-> "failed to create file", op |-> {<<"create", name>>}]
    ELSE IF <<"execute", name>> \in faults
    THEN [fs |-> (name :> <<>>) @@ fs, err |-> "write error", op |-> {<<"execute", name>>}]
    ELSE [fs |-> (name :> Execute(name, data)) @@ fs, err |-> "", op |-> {}]

\* one iteration of "for name, tmpl := range files": Go visits the keys of a map
\* in an order it does not specify
RangeFiles ==
    /\ pc = "range"
    /\ \E name \in files \ visited :
         LET r == renderToFile(name)
         IN  /\ fs' = r.fs
             /\ failed' = failed \cup r.op
             /\ trace' = trace \o <<"render", "write">>
             /\ IF r.err # ""
                THEN /\ err' = errRender(name)
                     /\ pc' = "returned"
                     /\ UNCHANGED visited
                ELSE /\ visited' = visited \cup {name}
                     /\ UNCHANGED <<err, pc>>
    /\ UNCHANGED <<env, dirs, rawMessages, rendered, msgIdx, data, exitStatus, run, first>>

\* the range loop is over: return nil
ReturnNil ==
    /\ pc = "range"
    /\ visited = files
    /\ pc' = "returned"
    /\ UNCHANGED <<env, fs, dirs, rawMessages, rendered, msgIdx, data, visited, err, failed,
                   exitStatus, trace, run, first>>

\* main: log.Fatalf on an error (exit status 1), else the confirmation line
MainExit ==
    /\ pc = "returned"
    /\ exitStatus' = IF err # "" THEN "1" ELSE "0"
    /\ pc' = "exit"
    /\ UNCHANGED <<env, fs, dirs, rawMessages, rendered, msgIdx, data, visited, err, failed,
                   trace, run, first>>

\* the range loop on a run in which no call fails, as one step: the six files
\* do not depend on the order of the visits
RangeAllFiles ==
    /\ pc = "range"
    /\ visited = {}
    /\ faults \cap (FaultOps \ {<<"read", "protoPath">>}) = {}
    /\ fs' = [n \in files |-> Execute(n, data)] @@ fs
    /\ visited' = files
    /\ trace' = trace \o Flatten([k \in 1..Cardinality(files) |-> <<"render", "write">>])
    /\ UNCHANGED <<env, dirs, pc, rawMessages, rendered, msgIdx, data, err, failed,
                   exitStatus, run, first>>

\* the program is started again under the conditions of the first run
SecondRun ==
    /\ pc = "exit"
    /\ run = 1
    /\ run' = 2
    /\ first' = [fs |-> fs, dirs |-> dirs, err |-> err]
    /\ fs' = fs0
    /\ dirs' = dirs0
    /\ pc' = "start"
    /\ rawMessages' = <<>>
    /\ rendered' = <<>>
    /\ msgIdx' = 1
    /\ data' = NoData
    /\ visited' = {}
    /\ err' = ""
    /\ failed' = {}
    /\ exitStatus' = ""
    /\ trace' = <<>>
    /\ UNCHANGED env

GenerateApp ==
    \/ ParseProto
    \/ MapMessage
    \/ BuildData
    \/ MkdirAll
    \/ WriteMigrationsInit
    \/ WritePackageInit
    \/ WriteTests
    \/ RangeFiles
    \/ ReturnNil

Next == GenerateApp \/ MainExit

Spec == Init /\ [][Next]_vars

NextTwice == GenerateApp \/ MainExit \/ SecondRun

SpecTwice == InitTwice /\ [][NextTwice]_vars

NextGen ==
    \/ ParseProto
    \/ MapMessage
    \/ BuildData
    \/ MkdirAll
    \/ WriteMigrationsInit
    \/ WritePackageInit
    \/ WriteTests
    \/ RangeAllFiles
    \/ ReturnNil
    \/ MainExit

SpecGen == InitGen /\ [][NextGen]_vars

----------------------------------------------------------------------------
(* Reading a written file back: its lines, and the entries in them *)

\* the parts of s between the occurrences of sep
RECURSIVE SplitAt(_, _)
SplitAt(s, sep) ==
    LET hits == { k \in 1..Len(s) : s[k] = sep }
    IN  IF hits = {} THEN <<s>>
        ELSE <<SubSeq(s, 1, Least(hits) - 1)>>
             \o SplitAt(SubSeq(s, Least(hits) + 1, Len(s)), sep)

LinesOf(content) == SplitAt(content, NL)

\* the lines that begin with the piece marker
Entries(content, marker) ==
    LET Marked(l) == l # <<>> /\ l[1] = marker
    IN  SelectSeq(LinesOf(content), Marked)

\* the class statements of a file, each with the lines of its body: those that
\* follow the class line up to the next empty line
RECURSIVE ClassBlocks(_)
ClassBlocks(ls) ==
    LET heads == { k \in 1..Len(ls) : ls[k] # <<>> /\ ls[k][1] = "class " }
    IN  IF heads = {} THEN <<>>
        ELSE LET k    == Least(heads)
                 rest == SubSeq(ls, k + 1, Len(ls))
                 ends == { e \in 1..(Len(rest) + 1) : e = Len(rest) + 1 \/ rest[e] = <<>> }
                 e    == Least(ends)
             IN  <<[head |-> ls[k], body |-> SubSeq(rest, 1, e - 1)]>>
                 \o ClassBlocks(SubSeq(rest, e, Len(rest)))

ModelBlocks == ClassBlocks(LinesOf(fs["models.py"]))

Scalars == {"int32", "int64", "string", "bool", "float", "double"}

RenderErrs == { errRender(n) : n \in files }

ReadFails == <<"read", "protoPath">> \in faults

Count(s, x) == Cardinality({ k \in 1..Len(s) : s[k] = x })

----------------------------------------------------------------------------
(* Claims about what is generated, checked under SpecGen *)

\* C1: the declaration attached to a mapped field is non-empty and fixed by the
\* declared type alone: int32 and int64 give the integer field, string the
\* bounded character field, bool the boolean field, float and double the
\* floating-point field, any other string (compared exactly, case included) a
\* relation field naming that string verbatim with cascading delete; name, type
\* and repeated flag are those of the parsed field, and the flag changes nothing.
TypeMappingTotal ==
    \A k \in 1..Len(rendered) : \A i \in 1..Len(rendered[k].Fields) :
        LET f == rendered[k].Fields[i]
            r == rawMessages[k].Fields[i]
            t == Str(f.Type)
        IN  /\ f.DjangoType # ""
            /\ t \in {"int32", "int64"}  => f.DjangoType = "models.IntegerField()"
            /\ t = "string"              => f.DjangoType = "models.CharField(max_length=255)"
            /\ t = "bool"                => f.DjangoType = "models.BooleanField()"
            /\ t \in {"float", "double"} => f.DjangoType = "models.FloatField()"
            /\ t \notin Scalars =>
                 f.DjangoType = "models.ForeignKey(" \o t \o ", on_delete=models.CASCADE)"
            /\ f.Repeated = r.Repeated
            /\ f.Name = r.Name
            /\ f.Type = r.Type
            /\ Len(rendered[k].Fields) = Len(rawMessages[k].Fields)

\* a mapped message holds the same type plain and repeated, the type being one
\* that differs from a scalar keyword only by case
TypeMappingSeen ==
    \E k \in 1..Len(rendered) : \E i, j \in 1..Len(rendered[k].Fields) :
        /\ rendered[k].Fields[i].Type = rendered[k].Fields[j].Type
        /\ rendered[k].Fields[i].Repeated
        /\ ~rendered[k].Fields[j].Repeated
        /\ Str(rendered[k].Fields[i].Type) = "String"

\* the line the model template writes for a declared field
FieldLine(d) == <<"    ", Str(d.Name), " = ", PythonType(Str(d.Type))>>

\* C2: once models.py is written, the field lines of the i-th model class are
\* the fields declared in the i-th message block of the text, in the order of
\* the text, none dropped, duplicated or moved.
FieldOrderPreserved ==
    "models.py" \in DOMAIN fs =>
        LET ds == Declared(schema)
            bs == ModelBlocks
        IN  /\ Len(bs) = Len(ds)
            /\ \A k \in 1..Len(ds) :
                 ds[k].Fields # <<>> =>
                    bs[k].body = [i \in 1..Len(ds[k].Fields) |-> FieldLine(ds[k].Fields[i])]

\* models.py holds a class of two different fields
FieldOrderSeen ==
    /\ "models.py" \in DOMAIN fs
    /\ \E k \in 1..Len(rendered) :
         /\ Len(rendered[k].Fields) = 2
         /\ rendered[k].Fields[1].Name # rendered[k].Fields[2].Name

\* C4: in models.py the class of a message with no matched field has the one
\* body line "pass", and the class of a message with fields has exactly one
\* field line per field and no "pass".
EmptyMessageRendering ==
    "models.py" \in DOMAIN fs =>
        LET bs == ModelBlocks
        IN  /\ Len(bs) = Len(rawMessages)
            /\ \A k \in 1..Len(bs) :
                 IF rawMessages[k].Fields = <<>>
                 THEN bs[k].body = << <<"    pass">> >>
                 ELSE /\ Len(bs[k].body) = Len(rawMessages[k].Fields)
                      /\ \A i \in 1..Len(bs[k].body) :
                           /\ Len(bs[k].body[i]) = 4
                           /\ bs[k].body[i][1] = "    "
                           /\ bs[k].body[i][3] = " = "

\* models.py holds a class without fields next to a class with fields
EmptyMessageSeen ==
    /\ "models.py" \in DOMAIN fs
    /\ \E j, k \in 1..Len(rawMessages) :
         rawMessages[j].Fields = <<>> /\ rawMessages[k].Fields # <<>>

\* the entries of content that begin with marker are Line(d) for each declared message d
EntriesAre(content, marker, Line(_)) ==
    LET ds == Declared(schema)
    IN  Entries(content, marker) = [k \in 1..Len(ds) |-> Line(ds[k])]

\* C5: after a run that wrote all six files, each of models.py, serializers.py,
\* viewsets.py, urls.py and admin.py holds, for the declared messages in the
\* order of the text and with repeated names repeated, exactly one entry each:
\* the model class, the serializer class on that model, the view class bound to
\* that serializer, the route under the lower-cased name, the admin
\* registration, and their imports; there is no entry for anything else.
OneEntryPerMessage ==
    visited = files =>
        LET N(d) == Str(d.Name)
            ModelClass(d)  == <<"class ", N(d), "(models.Model):">>
            ModelImport(d) == <<"from .models import ", N(d)>>
            SerClass(d)    == <<"class ", N(d), "Serializer(serializers.ModelSerializer):">>
            SerModel(d)    == <<"        model = ", N(d)>>
            SerImport(d)   == <<"from .serializers import ", N(d), "Serializer">>
            ViewClass(d)   == <<"class ", N(d), "ViewSet(viewsets.ModelViewSet):">>
            ViewQuery(d)   == <<"    queryset = ", N(d), ".objects.all()">>
            ViewSer(d)     == <<"    serializer_class = ", N(d), "Serializer">>
            ViewImport(d)  == <<"from .viewsets import ", N(d), "ViewSet">>
            Route(d)       == <<"router.register(r'", d.Lower, "', ", N(d), "ViewSet)">>
            Admin(d)       == <<"admin.site.register(", N(d), ")">>
        IN  /\ [k \in 1..Len(rawMessages) |-> rawMessages[k].Name]
                 = [k \in 1..Len(Declared(schema)) |-> Declared(schema)[k].Name]
            /\ EntriesAre(fs["models.py"], "class ", ModelClass)
            /\ EntriesAre(fs["serializers.py"], "from .models import ", ModelImport)
            /\ EntriesAre(fs["serializers.py"], "class ", SerClass)
            /\ EntriesAre(fs["serializers.py"], "        model = ", SerModel)
            /\ EntriesAre(fs["viewsets.py"], "from .models import ", ModelImport)
            /\ EntriesAre(fs["viewsets.py"], "from .serializers import ", SerImport)
            /\ EntriesAre(fs["viewsets.py"], "class ", ViewClass)
            /\ EntriesAre(fs["viewsets.py"], "    queryset = ", ViewQuery)
            /\ EntriesAre(fs["viewsets.py"], "    serializer_class = ", ViewSer)
            /\ EntriesAre(fs["urls.py"], "from .viewsets import ", ViewImport)
            /\ EntriesAre(fs["urls.py"], "router.register(r'", Route)
            /\ EntriesAre(fs["admin.py"], "from .models import ", ModelImport)
            /\ EntriesAre(fs["admin.py"], "admin.site.register(", Admin)
            /\ Len(Entries(fs["apps.py"], "class ")) = 1

\* all six files are written for a text with two message blocks of one name,
\* a name that its lower-case form differs from
OneEntrySeen ==
    /\ visited = files
    /\ Len(rawMessages) = 2
    /\ rawMessages[1].Name = rawMessages[2].Name
    /\ ToLower(rawMessages[1].Name) # rawMessages[1].Name

\* the bodies of the message blocks of the text
Bodies == LET mm == FindAllMessages(text, 1) IN [k \in 1..Len(mm) |-> mm[k].body]

\* ParseProto has returned: with the read error and no message if the file
\* could not be read, with no error otherwise
ParseReturns ==
    pc # "start" =>
        IF ReadFails THEN err = errRead /\ rawMessages = <<>> ELSE err # errRead

\* C8 as stated: ParseProto fails only with the read error, and a message whose
\* body has no line matching the field pattern has no field.
ParseSkipsLines ==
    /\ ParseReturns
    /\ (pc # "start" /\ ~ReadFails) =>
          \A k \in 1..Len(rawMessages) :
              (\A l \in Range(SplitAt(Bodies[k], "\n")) : FindAllFields(l, 1) = <<>>)
                  => rawMessages[k].Fields = <<>>

\* C8 as amended: ParseProto fails only with the read error; for a text that
\* was read it returns exactly the declared messages with exactly their
\* declared fields, so that text outside a message block gives no message, text
\* of a body outside a match of the field pattern (taken over the whole body,
\* line breaks counting as white space) gives no field, and a body without a
\* match gives a message with no field.
ParseNeverFails ==
    /\ ParseReturns
    /\ (pc # "start" /\ ~ReadFails) =>
          LET ds == Declared(schema)
          IN  rawMessages = [k \in 1..Len(ds) |-> [Name |-> ds[k].Name, Fields |-> ds[k].Fields]]

\* a text was parsed that holds a block that is no message and a message whose
\* body holds text but no field
ParseNeverFailsSeen ==
    /\ pc = "map"
    /\ Len(schema) = 2
    /\ Len(rawMessages) = 1
    /\ rawMessages[1].Fields = <<>>
    /\ \E k \in 1..2 : schema[k].hdr.isMsg /\ schema[k].body # <<>>

----------------------------------------------------------------------------
(* Claims about a run on the file system, checked under Spec and SpecTwice *)

Returned == pc \in {"returned", "exit"}

FailureTerminates ==
    failed # {} => (Returned /\ err # "" /\ exitStatus # "0")

\* C7: when a render fails, GenerateApp has returned the error of that file,
\* every file visited before it holds what was rendered into it, every file
\* not yet visited is as it was before the run, and the failing file is as it
\* was (not created) or cut short (created, not written).
NoRollback ==
    err \in RenderErrs =>
        /\ Returned
        /\ \E n \in files \ visited :
             /\ err = errRender(n)
             /\ faults \cap {<<"create", n>>, <<"execute", n>>} # {}
             /\ At(fs, n) \in {At(fs0, n), <<"file", <<>>>>}
             /\ \A u \in files \ (visited \cup {n}) : At(fs, u) = At(fs0, u)
        /\ \A v \in visited : At(fs, v) = <<"file", Execute(v, data)>>

\* a render failed after three of the six files were written over old ones
NoRollbackSeen ==
    /\ err \in RenderErrs
    /\ Cardinality(visited) = 3
    /\ fs0 = OldFs
    /\ pc = "exit"

\* the rank of a stage in parse < map < context < render < write
StageRank(st) ==
    CASE st = "parse" -> 1 [] st = "map" -> 2 [] st = "context" -> 3
      [] st = "render" -> 4 [] st = "write" -> 5 [] OTHER -> 0

IsStage(st) == st # "static"

\* C9 as stated: the stages parse, map, context, render, write are entered in
\* this order, each over before the next begins and none entered again.
StrictlyLinear ==
    LET t == SelectSeq(trace, IsStage)
    IN  \A i, j \in 1..Len(t) : i < j => StageRank(t[i]) <= StageRank(t[j])

\* C9 as amended: parse, the mapping of every message and the building of the
\* context happen once each, in this order, each over before the next begins,
\* and all three before anything is written; then the static files are
\* written; then the templates are visited one at a time, each rendered and
\* written before the next is rendered, and none visited twice.
LinearUpToRendering ==
    /\ \A i, j \in 1..Len(trace) :
         (i < j /\ trace[j] \in {"parse", "map", "context"}) =>
             StageRank(trace[i]) \in 1..StageRank(trace[j])
    /\ \A i, j \in 1..Len(trace) :
         (i < j /\ trace[j] = "static") => trace[i] \notin {"render", "write"}
    /\ Count(trace, "parse") <= 1
    /\ Count(trace, "context") <= 1
    /\ Count(trace, "context") = 1 =>
         (Count(trace, "map") = Len(rawMessages) /\ Len(rendered) = Len(rawMessages))
    /\ \A i \in 1..Len(trace) :
         trace[i] = "render" => (i < Len(trace) /\ trace[i + 1] = "write")
    /\ Count(trace, "render") = Count(trace, "write")
    /\ Count(trace, "render")
         = Cardinality(visited) + (IF err \in RenderErrs THEN 1 ELSE 0)

\* a run over two messages has ended without error
LinearSeen ==
    /\ pc = "exit"
    /\ err = ""
    /\ Len(rawMessages) = 2
    /\ Count(trace, "render") = Cardinality(files)

\* C10: when the schema file cannot be read, GenerateApp returns the read
\* error, the process exits with status 1, and directories and files are as
\* they were: none created, none overwritten.
ReadFailureTouchesNothing ==
    ReadFails =>
        /\ fs = fs0
        /\ dirs = dirs0
        /\ pc # "start" => (Returned /\ err = errRead)
        /\ pc = "exit" => exitStatus = "1"

\* the process has exited on a read error in an empty output location
ReadFailureSeen ==
    /\ ReadFails
    /\ pc = "exit"
    /\ exitStatus = "1"
    /\ fs0 = EmptyFs
    /\ fs = EmptyFs
    /\ dirs = {}

====
